---- MODULE Spec2Model ----
(***************************************************************************)
(* FreeCAD MCP addon: the main-thread bridge (bridge.py), the tool         *)
(* dispatcher execute_tool and the TCP server SimpleMCPServer              *)
(* (mcp_server.py), as a state machine.                                    *)
(*                                                                         *)
(* Threads are the Qt main thread (the thread the bridge object lives in)  *)
(* and background Python threads.  A call of execute_sync is a record in   *)
(* `calls`; the body of an operation that is executing is a frame on the   *)
(* stack of the thread that runs it, so a body started from inside         *)
(* QApplication.processEvents() sits on top of the body that pumps.        *)
(***************************************************************************)
EXTENDS Integers, Sequences, FiniteSets, TLC

\* ------------------------------------------------------------------ bounds
MaxCalls == 2    \* execute_sync calls made when the bridge is driven on its own
MaxConns == 2    \* connections the TCP server accepts
MaxServers == 2  \* SimpleMCPServer objects created by start()
MaxPolls == 2    \* failed accept() calls after stop() that are told apart
MaxPoints == 2   \* points select_point generates
MaxLines == 1    \* measurement lines tracked at a time
MaxLen == 3      \* characters of a cell reference given to parse_grid_cell
MaxZooms == 2    \* zoom_grid_region calls in a row, with every argument
MaxDeepZooms == 18  \* zoom_grid_region calls in a row into the last column
MaxInput == 2    \* lines on the standard input of the stdio bridge
ServerIds == 1..MaxServers

\* every connection makes at most two calls (the tool, then the screenshot)
MaxCallIds == IF MaxCalls > 2 * MaxConns THEN MaxCalls ELSE 2 * MaxConns
CallIds == 1..MaxCallIds

\* ----------------------------------------------------------------- threads
AppThread == "main"
BgThreads == {"bg1", "bg2"}
ServerThread == "srv"
Threads == {AppThread, ServerThread} \cup BgThreads

\* ------------------------------------------------------------------ values
\* A Python value that crosses the bridge.  Tool results are dicts with the
\* keys success / error / screenshot (dict = TRUE); any other value (None, a
\* base64 string, ...) has no keys and is told apart by `data`.
Dict(s, e, d, shot) ==
    [dict |-> TRUE, success |-> s, error |-> e, data |-> d, screenshot |-> shot]
Opaque(d) ==
    [dict |-> FALSE, success |-> FALSE, error |-> "", data |-> d, screenshot |-> FALSE]
NoneValue == Opaque("None")
Success(d, shot) == Dict(TRUE, "", d, shot)
Failure(e) == Dict(FALSE, e, "", FALSE)

\* The outcome of running a body or of a call: a returned value or a raised
\* exception (named by its class, plus a tag for the message where two
\* exceptions of one class must be told apart).
Ret(v) == [tag |-> "ret", val |-> v, exc |-> ""]
Raise(e) == [tag |-> "raise", val |-> NoneValue, exc |-> e]
NoOutcome == [tag |-> "none", val |-> NoneValue, exc |-> ""]

\* concurrent.futures.TimeoutError raised by an operation body itself
OpTimeoutError == "concurrent.futures.TimeoutError(op)"
\* bridge.py:101  TimeoutError("Function execution timed out after ...")
ExecTimeoutError == "TimeoutError(Function execution timed out)"
InvalidStateError == "InvalidStateError"

\* bridge.py:99  `except concurrent.futures.TimeoutError` matches by class
IsFuturesTimeout(e) == e = OpTimeoutError

\* -------------------------------------------------------------- operations
\* The zero-argument callable handed to execute_sync.
PlainOp(r, p) == [kind |-> "plain", name |-> "", arg |-> "", res |-> r, pumps |-> p]
ToolOp(n, a) == [kind |-> "tool", name |-> n, arg |-> a, res |-> NoOutcome, pumps |-> FALSE]
CaptureOp == [kind |-> "capture", name |-> "", arg |-> "", res |-> NoOutcome, pumps |-> FALSE]
NoOp == [kind |-> "none", name |-> "", arg |-> "", res |-> NoOutcome, pumps |-> FALSE]

PlainOps ==
    { PlainOp(Ret(Opaque("v1")), FALSE), PlainOp(Ret(Opaque("v2")), FALSE),
      PlainOp(Ret(Opaque("v1")), TRUE),
      PlainOp(Raise("ValueError"), FALSE), PlainOp(Raise(OpTimeoutError), FALSE) }

VARIABLES
    nextCall,       \* number of the next execute_sync call
    calls,          \* call id -> [thread, op, pc, fut, outcome]
    futures,        \* future id -> [state, res]   (concurrent.futures.Future)
    eventQueue,     \* queued _execute_request emissions posted to the bridge's thread
    stack,          \* thread -> frames of the operation bodies executing on it
    invoked,        \* call id -> number of times func() was invoked for it
    ranOn,          \* call id -> threads on which its body has executed
    slotErrors      \* calls whose slot let an exception escape on its thread

\* Dispatcher globals of mcp_server.py and the FreeCAD application state
VARIABLES
    globals,        \* [dual_mode_enabled, target_doc_name, work_doc_name, measurement_mode,
                    \*  grid_enabled, region]
    freecad         \* [docs: open documents, active: FreeCAD.ActiveDocument]

\* SimpleMCPServer and its connections
VARIABLES
    running,        \* SimpleMCPServer.running
    sockOpen,       \* the listening socket exists and is not closed
    srvPc,          \* position of the server thread in start() / _handle_client()
    nConn,          \* connections accepted so far
    client,         \* the connection last accepted: [req, wire, closed, errored, et]
    nErrored,       \* connections whose handling ended in the except clause
    curCall,        \* the execute_sync call the server thread is blocked in
    hop1Result      \* execute_tool's `result` while the screenshot hop runs

\* Module-level start() / stop() and the server objects they create
VARIABLES
    server_ref,     \* the global _server: 0 (None) or the number of a server object
    nServers,       \* SimpleMCPServer objects created so far
    servers         \* server number -> the object, its thread and its connection

\* Point selection and measurement state of mcp_server.py, and the objects
\* of the open documents
VARIABLES
    point_counter,          \* _point_counter
    pending_points,         \* _pending_points: point number -> info
    confirmed_points,       \* _confirmed_points: point number -> info
    measurement_objects,    \* _measurement_objects: the line objects, in order
    objects,                \* document objects that exist (markers and lines)
    frames,                 \* select_point bodies suspended in processEvents()
    issued,                 \* point numbers generated, in order
    returned,               \* point numbers returned by successful select_point calls
    last                    \* the tool call that has just run on the owner thread

\* The grid zoom, and parse_grid_cell applied to a cell reference
VARIABLES
    zooms,          \* successful zoom_grid_region calls since the region was last full
    parse_arg,      \* the argument of parse_grid_cell
    parsed          \* what parse_grid_cell did with it

\* The stdio bridge mcp_bridge.py: its standard input and output
VARIABLES
    stdin,          \* the lines not read yet
    stdout,         \* the JSON-RPC response lines written
    stdio_pc        \* "reading" inside main()'s loop, "ended" after it

bridgeVars == <<nextCall, calls, futures, eventQueue, stack, invoked, ranOn, slotErrors>>
toolVars == <<globals, freecad>>
serverVars == <<running, sockOpen, srvPc, nConn, client, nErrored, curCall, hop1Result>>
lifeVars == <<server_ref, nServers, servers>>
measVars == <<point_counter, pending_points, confirmed_points, measurement_objects,
              objects, frames, issued, returned, last>>
gridVars == <<zooms>>
parseVars == <<parse_arg, parsed>>
stdioVars == <<stdin, stdout, stdio_pc>>
restVars == <<gridVars, parseVars, stdioVars>>
vars == <<bridgeVars, toolVars, serverVars, lifeVars, measVars, restVars>>

NoCall == [thread |-> "", op |-> NoOp, pc |-> "none", fut |-> 0, outcome |-> NoOutcome]
NoFuture == [state |-> "NONE", res |-> NoOutcome]

\* ------------------------------------------------------------------ floats
\* The grid region is held in Python floats (IEEE 754 binary64).  A natural
\* number of any size is a sequence of digits to the base 2^DigitBits, least
\* significant first, with no zero digit at the high end; a float that is not
\* negative is m * 2^e with m such a number, odd or zero, so that equal values
\* are equal records.  No value the grid computes within the bounds leaves
\* the normal range.
MantissaBits == 53
DigitBits == 15
Base == 2^DigitBits

Rest(a) == IF a = <<>> THEN <<>> ELSE Tail(a)
Digit(a, i) == IF i <= Len(a) THEN a[i] ELSE 0

RECURSIVE Trim(_)
Trim(a) == IF a # <<>> /\ a[Len(a)] = 0 THEN Trim(SubSeq(a, 1, Len(a) - 1)) ELSE a

RECURSIVE BigAdd(_, _, _)
BigAdd(a, b, carry) ==
    IF a = <<>> /\ b = <<>> THEN (IF carry = 0 THEN <<>> ELSE <<carry>>)
    ELSE LET s == Digit(a, 1) + Digit(b, 1) + carry
         IN <<s % Base>> \o BigAdd(Rest(a), Rest(b), s \div Base)

\* a - b for a >= b
RECURSIVE BigSub(_, _, _)
BigSub(a, b, borrow) ==
    IF a = <<>> THEN <<>>
    ELSE LET d == Digit(a, 1) - Digit(b, 1) - borrow
         IN IF d < 0 THEN <<d + Base>> \o BigSub(Rest(a), Rest(b), 1)
            ELSE <<d>> \o BigSub(Rest(a), Rest(b), 0)

\* a * c + carry for c <= Base
RECURSIVE BigMul(_, _, _)
BigMul(a, c, carry) ==
    IF a = <<>> THEN (IF carry = 0 THEN <<>> ELSE <<carry % Base>> \o BigMul(<<>>, c, carry \div Base))
    ELSE LET s == a[1] * c + carry
         IN <<s % Base>> \o BigMul(Tail(a), c, s \div Base)

\* quotient and remainder of a by d <= Base
RECURSIVE BigDiv(_, _)
BigDiv(a, d) ==
    IF a = <<>> THEN [q |-> <<>>, r |-> 0]
    ELSE LET h == BigDiv(Tail(a), d)
             t == h.r * Base + a[1]
         IN [q |-> <<t \div d>> \o h.q, r |-> t % d]

\* a * 2^k
Shl(a, k) ==
    IF a = <<>> THEN <<>>
    ELSE [i \in 1..(k \div DigitBits) |-> 0] \o BigMul(a, 2^(k % DigitBits), 0)

\* a \div 2^k, and whether anything was lost
Shr(a, k) ==
    LET j == k \div DigitBits
        h == BigDiv(SubSeq(a, j + 1, Len(a)), 2^(k % DigitBits))
    IN [q |-> Trim(h.q), lost |-> h.r # 0 \/ \E i \in 1..j : Digit(a, i) # 0]

\* number of bits of a, which has no zero digit at the high end
BitLen(a) ==
    IF a = <<>> THEN 0
    ELSE (Len(a) - 1) * DigitBits + CHOOSE n \in 1..DigitBits : 2^(n - 1) <= a[Len(a)] /\ a[Len(a)] < 2^n

\* -1, 0, 1 as a < b, a = b, a > b
RECURSIVE BigCmp(_, _)
BigCmp(a, b) ==
    IF a = <<>> /\ b = <<>> THEN 0
    ELSE LET h == BigCmp(Rest(a), Rest(b))
         IN IF h # 0 THEN h
            ELSE IF Digit(a, 1) < Digit(b, 1) THEN 0 - 1
            ELSE IF Digit(a, 1) > Digit(b, 1) THEN 1 ELSE 0

Float(m, e) == [m |-> m, e |-> e]
FZero == Float(<<>>, 0)
FOne == Float(<<1>>, 0)

\* m * 2^e with the zero bits at the low end of m moved into e
RECURSIVE Norm(_, _)
Norm(m, e) ==
    IF m = <<>> THEN FZero
    ELSE IF m[1] = 0 THEN Norm(Tail(m), e + DigitBits)
    ELSE LET z == CHOOSE t \in 0..(DigitBits - 1) : m[1] % 2^t = 0 /\ m[1] % 2^(t + 1) # 0
         IN Float(Shr(m, z).q, e + z)

\* m * 2^e, plus something below one unit of m when `sticky`, rounded to the
\* nearest float, a tie to the even one
Round(m0, sticky, e) ==
    LET m == Trim(m0)
        k == BitLen(m) - MantissaBits
    IN IF k <= 0 THEN Norm(m, e)
       ELSE LET h == Shr(m, k - 1)
                kept == Shr(h.q, 1).q
                below == sticky \/ h.lost
                up == h.q[1] % 2 = 1 /\ (below \/ kept[1] % 2 = 1)
            IN Norm(IF up THEN BigAdd(kept, <<1>>, 0) ELSE kept, e + k)

MinExp(x, y) == IF x.m = <<>> THEN y.e ELSE IF y.m = <<>> THEN x.e
                ELSE IF x.e < y.e THEN x.e ELSE y.e
Aligned(x, e) == Shl(x.m, x.e - e)

FCmp(x, y) == BigCmp(Aligned(x, MinExp(x, y)), Aligned(y, MinExp(x, y)))
FLess(x, y) == FCmp(x, y) < 0
FLeq(x, y) == FCmp(x, y) <= 0
FMin(x, y) == IF FLess(y, x) THEN y ELSE x

FAdd(x, y) ==
    Round(BigAdd(Aligned(x, MinExp(x, y)), Aligned(y, MinExp(x, y)), 0), FALSE, MinExp(x, y))

\* x - y for x >= y
FSub(x, y) ==
    Round(BigSub(Aligned(x, MinExp(x, y)), Aligned(y, MinExp(x, y)), 0), FALSE, MinExp(x, y))

\* c * x and x / d for a small integer c >= 0, d > 0
FMulInt(c, x) == Round(BigMul(x.m, c, 0), FALSE, x.e)

\* the quotient is taken to more bits than a float keeps
Precise == MantissaBits + MantissaBits
FDivInt(x, d) ==
    LET h == BigDiv(Shl(x.m, Precise), d)
    IN Round(h.q, h.r # 0, x.e - Precise)

\* n / d in Python for small integers
FRatio(n, d) == FDivInt(Round(BigMul(<<1>>, n, 0), FALSE, 0), d)

\* ------------------------------------------------------------- dispatcher
NoDoc == "None"
TargetDoc == "TargetDoc"
WorkDoc == "WorkDoc"
Unnamed == "Unnamed"
DocNames == {TargetDoc, WorkDoc, Unnamed}

\* mcp_server.py:42-48  _grid_config: columns, rows and the zoom region
columns == 8
rows == 6
Region(x0, x1, y0, y1) == [x_min |-> x0, x_max |-> x1, y_min |-> y0, y_max |-> y1]
FullRegion == Region(FZero, FOne, FZero, FOne)

InitGlobals ==
    [dual_mode_enabled |-> FALSE, target_doc_name |-> NoDoc, work_doc_name |-> NoDoc,
     measurement_mode |-> FALSE, grid_enabled |-> FALSE, region |-> FullRegion]

is_dual_mode(g) ==
    g.dual_mode_enabled /\ g.target_doc_name # NoDoc /\ g.work_doc_name # NoDoc

reset_dual_mode(g) ==
    [g EXCEPT !.dual_mode_enabled = FALSE, !.target_doc_name = NoDoc, !.work_doc_name = NoDoc]

\* FreeCAD.getDocument(name) raises NameError for a document that is not open
getDocumentRaises(fc, n) == n \notin fc.docs

\* FreeCAD.newDocument(name): the document exists and is the active one
newDocument(fc, n) == [docs |-> fc.docs \cup {n}, active |-> n]

\* FreeCAD.closeDocument(name); the application activates one of the
\* remaining documents' views, or none
closeDocument(fc, n, next) ==
    [docs |-> fc.docs \ {n}, active |-> IF fc.active = n THEN next ELSE fc.active]

Body(r, p, g, fc) == [res |-> r, pumps |-> p, g |-> g, fc |-> fc]

UnknownToolError(n) == "Unknown tool: " \o n

\* execute_tool._execute, branch `setup_dual_docs`
SetupDualDocs(arg, g, fc) ==
    IF arg = "missing" THEN Body(Ret(Failure("target_stl_path is required")), FALSE, g, fc)
    ELSE IF arg = "nofile" THEN Body(Ret(Failure("File not found")), FALSE, g, fc)
    ELSE
      LET closed == [docs |-> fc.docs \ {TargetDoc, WorkDoc},
                     active |-> IF fc.active \in {TargetDoc, WorkDoc} THEN NoDoc ELSE fc.active]
          withTarget == newDocument(closed, TargetDoc)
      IN IF arg = "corrupt"
           THEN \* Mesh.insert raises: except branch, reset_dual_mode()
                Body(Ret(Failure("Failed to setup dual docs")), FALSE, reset_dual_mode(g), withTarget)
           ELSE Body(Ret(Success("dual", FALSE)), TRUE,
                     [g EXCEPT !.dual_mode_enabled = TRUE, !.target_doc_name = TargetDoc,
                               !.work_doc_name = WorkDoc],
                     newDocument(withTarget, WorkDoc))

\* execute_tool._execute, branch `create_box` (mcp_server.py:1113-1121):
\* arguments["length"] raises KeyError when the argument is missing
CreateBoxDefaults(arg, g, fc) ==
    Body(Ret(Success("box", FALSE)), FALSE, g,
         IF ~is_dual_mode(g) /\ fc.active = NoDoc THEN newDocument(fc, Unnamed) ELSE fc)
CreateBox(arg, g, fc) ==
    LET fc1 == IF ~is_dual_mode(g) /\ fc.active = NoDoc THEN newDocument(fc, Unnamed) ELSE fc
    IN IF arg = "missing"
         THEN Body(Raise("KeyError"), FALSE, g, fc1)
         ELSE Body(Ret(Success("box", FALSE)), FALSE, g, fc1)

\* capture_viewport_base64 / capture_with_grid_and_labels: a view exists
\* when there is an active document; the image may still be missing
ViewAvailable(g, fc) ==
    IF is_dual_mode(g)
      THEN g.target_doc_name \in fc.docs \/ g.work_doc_name \in fc.docs
      ELSE fc.active # NoDoc

\* execute_tool._capture_screenshot
CaptureScreenshot(g, fc, ok) ==
    LET view == ViewAvailable(g, fc)
        v == IF view /\ ok THEN Opaque("png") ELSE NoneValue
        fc1 == IF is_dual_mode(g) /\ fc.active = NoDoc /\ view
                 THEN [fc EXCEPT !.active = IF g.work_doc_name \in fc.docs
                                              THEN g.work_doc_name ELSE g.target_doc_name]
                 ELSE fc
    IN Body(Ret(v), view, g, fc1)

\* execute_tool._execute, branch `take_screenshot` (mcp_server.py:1439-1460):
\* the same capture functions, the image returned in the result itself
TakeScreenshot(g, fc, ok) ==
    LET shot == CaptureScreenshot(g, fc, ok)
    IN Body(Ret(IF shot.res.val # NoneValue
                  THEN Success("shot", TRUE)
                  ELSE Failure("Failed to capture screenshot (GUI may not be available)")),
            shot.pumps, shot.g, shot.fc)

\* execute_tool._execute: the body run on the main thread for one tool call.
\* ok: whether the viewer produces an image when asked for one.
Execute(name, arg, g, fc, ok) ==
    IF is_dual_mode(g) /\ getDocumentRaises(fc, g.work_doc_name)
      THEN Body(Raise("NameError"), FALSE, g, fc)
    ELSE IF name = "setup_dual_docs" THEN SetupDualDocs(arg, g, fc)
    ELSE IF name = "create_box" THEN CreateBox(arg, g, fc)
    ELSE IF name = "start_measurement"
      THEN Body(Ret(Success("measure", ok /\ fc.active # NoDoc)), TRUE,
                [g EXCEPT !.measurement_mode = TRUE, !.grid_enabled = TRUE,
                          !.region = FullRegion], fc)
    ELSE IF name = "end_measurement"
      THEN Body(Ret(Success("end", FALSE)), FALSE,
                [g EXCEPT !.measurement_mode = FALSE, !.grid_enabled = FALSE], fc)
    ELSE IF name = "take_screenshot" THEN TakeScreenshot(g, fc, ok)
    ELSE IF name = "list_tools" THEN Body(Ret(Success("tools", FALSE)), FALSE, g, fc)
    ELSE Body(Ret(Failure(UnknownToolError(name))), FALSE, g, fc)

\* What invoking func() does
RunBody(op, g, fc, ok) ==
    IF op.kind = "tool" THEN Execute(op.name, op.arg, g, fc, ok)
    ELSE IF op.kind = "capture" THEN CaptureScreenshot(g, fc, ok)
    ELSE Body(op.res, op.pumps, g, fc)

\* ------------------------------------------------------------------ bridge
Top(t) == stack[t][Len(stack[t])]
Pop(sq) == SubSeq(sq, 1, Len(sq) - 1)
\* What thread t is doing: "idle", or the position of its innermost body
TopPc(t) == IF stack[t] = <<>> THEN "idle" ELSE Top(t).pc

\* pc of a call: "queued" (blocked in future.result()), "timedout" (result()
\* raised, cancel() not yet called), "direct" (func() running on the caller's
\* own thread), "done" (execute_sync returned or re-raised), "gaveup"
\* (execute_sync raised its TimeoutError)
\* A thread blocked in future.result() (or between its timeout and cancel())
Blocked(t) == \E c \in CallIds : calls[c].thread = t /\ calls[c].pc \in {"queued", "timedout"}

\* The thread is idle or inside an operation body: it can make a call
CanCall(t) ==
    /\ ~Blocked(t)
    /\ TopPc(t) \in {"idle", "body"}

\* bridge.py:45-50  the bridge object lives in app.thread() and its slot is
\* connected with Qt.QueuedConnection: the slot runs on that thread
BridgeThread == AppThread

\* bridge.py:85-86  app and QThread.currentThread() == app.thread()
OnMainThreadAlways(t) == TRUE
OnMainThreadNever(t) == FALSE
OnMainThread(t) == t = AppThread

\* bridge.py:91  future = concurrent.futures.Future(): a fresh object per call
SharedFuture(c) == IF c > 1 THEN c - 1 ELSE c
NewFuture(c) == c

\* bridge.py:94  self._execute_request.emit(func, future): one queued event
EmitTwice(q, c) == Append(Append(q, c), c)
Emit(q, c) == Append(q, c)

\* func() is invoked on thread t for call c: its frame is pushed
Invoke(t, c, op) ==
    \E ok \in BOOLEAN :
        LET b == RunBody(op, globals, freecad, ok) IN
        /\ stack' = [stack EXCEPT ![t] = Append(@, [call |-> c, res |-> b.res,
                                                   pc |-> IF b.pumps THEN "pump" ELSE "body"])]
        /\ invoked' = [invoked EXCEPT ![c] = @ + 1]
        /\ ranOn' = [ranOn EXCEPT ![c] = @ \cup {t}]
        /\ globals' = b.g
        /\ freecad' = b.fc

\* bridge.py:69-94  execute_sync up to the point where it runs or queues func
BridgeCall(t, op) ==
    /\ nextCall \in CallIds
    /\ CanCall(t)
    /\ nextCall' = nextCall + 1
    /\ IF OnMainThread(t)
         THEN \* bridge.py:88  return func()
              /\ calls' = [calls EXCEPT ![nextCall] =
                    [thread |-> t, op |-> op, pc |-> "direct", fut |-> 0, outcome |-> NoOutcome]]
              /\ Invoke(t, nextCall, op)
              /\ UNCHANGED <<futures, eventQueue>>
         ELSE LET f == NewFuture(nextCall) IN
              /\ calls' = [calls EXCEPT ![nextCall] =
                    [thread |-> t, op |-> op, pc |-> "queued", fut |-> f, outcome |-> NoOutcome]]
              /\ futures' = [futures EXCEPT ![f] = [state |-> "PENDING", res |-> NoOutcome]]
              /\ eventQueue' = Emit(eventQueue, nextCall)
              /\ UNCHANGED <<stack, invoked, ranOn, globals, freecad>>
    /\ UNCHANGED slotErrors

\* The Qt event loop of the main thread can dispatch a posted event: it is
\* idle, or an operation body is inside QApplication.processEvents()
LoopDispatching ==
    /\ ~Blocked(BridgeThread)
    /\ TopPc(BridgeThread) \in {"idle", "pump"}

\* bridge.py:52-64  the queued slot _execute_on_main starts on the main thread
Deliver ==
    /\ UNCHANGED <<serverVars, lifeVars, measVars, restVars>>
    /\ eventQueue # <<>>
    /\ LoopDispatching
    /\ LET c == Head(eventQueue) IN
       /\ eventQueue' = Tail(eventQueue)
       /\ IF futures[calls[c].fut].state = "CANCELLED"
            THEN UNCHANGED <<stack, invoked, ranOn, globals, freecad>>
            ELSE Invoke(BridgeThread, c, calls[c].op)
    /\ UNCHANGED <<nextCall, calls, futures, slotErrors>>

\* QApplication.processEvents() returns to the operation body that called it
PumpEnd(t) ==
    /\ UNCHANGED <<serverVars, lifeVars, measVars, restVars>>
    /\ TopPc(t) = "pump"
    /\ ~Blocked(t)
    /\ stack' = [stack EXCEPT ![t] = Append(Pop(@), [Top(t) EXCEPT !.pc = "body"])]
    /\ UNCHANGED <<nextCall, calls, futures, eventQueue, invoked, ranOn, slotErrors, globals, freecad>>

\* concurrent.futures.Future.set_result / set_exception (Python 3.8+):
\* InvalidStateError unless the future is still pending
SetOutcome(fut, r) ==
    IF fut.state = "PENDING" THEN [state |-> "FINISHED", res |-> r] ELSE fut
SetRaises(fut) == fut.state # "PENDING"

\* bridge.py:64-67 (slot) and bridge.py:88 (direct): func() returns or raises
Finish(t) ==
    /\ UNCHANGED <<serverVars, lifeVars, measVars, restVars>>
    /\ TopPc(t) = "body"
    /\ ~Blocked(t)
    /\ LET c == Top(t).call
           r == Top(t).res
       IN
       /\ stack' = [stack EXCEPT ![t] = Pop(@)]
       /\ IF calls[c].pc = "direct"
            THEN /\ calls' = [calls EXCEPT ![c].pc = "done", ![c].outcome = r]
                 /\ UNCHANGED <<futures, slotErrors>>
            ELSE \* set_result raising is caught by `except Exception`, whose
                 \* set_exception raises again and leaves the slot
                 /\ futures' = [futures EXCEPT ![calls[c].fut] = SetOutcome(@, r)]
                 /\ slotErrors' = IF SetRaises(futures[calls[c].fut])
                                    THEN slotErrors \cup {c} ELSE slotErrors
                 /\ UNCHANGED calls
    /\ UNCHANGED <<nextCall, eventQueue, invoked, ranOn, globals, freecad>>

\* bridge.py:98-99  future.result(timeout) raises concurrent.futures.TimeoutError
Timeout(t) ==
    /\ UNCHANGED <<serverVars, lifeVars, measVars, restVars>>
    /\ \E c \in CallIds :
        /\ calls[c].thread = t
        /\ calls[c].pc = "queued"
        /\ futures[calls[c].fut].state = "PENDING"
        /\ calls' = [calls EXCEPT ![c].pc = "timedout"]
        /\ UNCHANGED <<nextCall, futures, eventQueue, stack, invoked, ranOn, slotErrors, globals, freecad>>

\* concurrent.futures.Future.cancel(): only a pending future is cancelled
CancelFuture(fut) == IF fut.state = "PENDING" THEN [fut EXCEPT !.state = "CANCELLED"] ELSE fut

\* bridge.py:100-101  future.cancel(); raise TimeoutError(...)
Cancel(t) ==
    /\ UNCHANGED <<serverVars, lifeVars, measVars, restVars>>
    /\ \E c \in CallIds :
        /\ calls[c].thread = t
        /\ calls[c].pc = "timedout"
        /\ futures' = [futures EXCEPT ![calls[c].fut] = CancelFuture(@)]
        /\ calls' = [calls EXCEPT ![c].pc = "gaveup", ![c].outcome = Raise(ExecTimeoutError)]
        /\ UNCHANGED <<nextCall, eventQueue, stack, invoked, ranOn, slotErrors, globals, freecad>>

\* bridge.py:97-101  what execute_sync gives its caller for a finished future
ResultOf(r) ==
    IF r.tag = "raise" /\ IsFuturesTimeout(r.exc) THEN Raise(ExecTimeoutError) ELSE r

\* bridge.py:98  future.result() returns the value or raises the stored exception
Return(t) ==
    /\ UNCHANGED <<serverVars, lifeVars, measVars, restVars>>
    /\ \E c \in CallIds :
        /\ calls[c].thread = t
        /\ calls[c].pc = "queued"
        /\ futures[calls[c].fut].state = "FINISHED"
        /\ calls' = [calls EXCEPT ![c].pc = "done",
                                  ![c].outcome = ResultOf(futures[calls[c].fut].res)]
        /\ UNCHANGED <<nextCall, futures, eventQueue, stack, invoked, ranOn, slotErrors, globals, freecad>>

InitBridge ==
    /\ nextCall = 1
    /\ calls = [c \in CallIds |-> NoCall]
    /\ futures = [f \in CallIds |-> NoFuture]
    /\ eventQueue = <<>>
    /\ stack = [t \in Threads |-> <<>>]
    /\ invoked = [c \in CallIds |-> 0]
    /\ ranOn = [c \in CallIds |-> {}]
    /\ slotErrors = {}

InitTools ==
    /\ globals = InitGlobals
    /\ freecad = [docs |-> {}, active |-> NoDoc]

NoRequest == [kind |-> "none", tool |-> "", arg |-> ""]
NoConn == [req |-> NoRequest, wire |-> <<>>, closed |-> FALSE, errored |-> FALSE, et |-> NoOutcome]

InitServerIdle ==
    /\ running = FALSE
    /\ sockOpen = FALSE
    /\ srvPc = "none"
    /\ nConn = 0
    /\ client = NoConn
    /\ nErrored = 0
    /\ curCall = 0
    /\ hop1Result = NoneValue

\* mcp_server.py:24  _server = None; no SimpleMCPServer object exists
\* A server object: SimpleMCPServer.running, SimpleMCPServer.socket ("none",
\* "created", "listening", "closed"), the position of its thread, and the
\* connection its thread is handling:
\*   buf    what the peer has sent and recv() has not returned yet
\*   data   the local `data` of _handle_client: "empty", "partial" (bytes,
\*          no newline) or "line" (holds a newline)
\*   late   stop() had been called on the server when the connection was accepted
\*   polls  accept() calls that failed after stop() (counted up to MaxPolls)
NoServer ==
    [pc |-> "none", running |-> FALSE, socket |-> "none", stopped |-> FALSE,
     buf |-> "none", data |-> "empty", late |-> FALSE, polls |-> 0]

InitLifecycle ==
    /\ server_ref = 0
    /\ nServers = 0
    /\ servers = [s \in ServerIds |-> NoServer]

\* ---------------------------------------------- points and measurements
\* point_N is written N; a request names a point by its number, 0 stands
\* for a missing or empty point_id and All for "all"
PointIds == 1..MaxPoints
Missing == 0
All == 0 - 1

\* A document object: a marker sphere Marker_point_<a>, or a line
\* Measurement_point_<a>_point_<b> (n tells apart lines of one name, which
\* FreeCAD renames to keep names unique in a document)
Obj(doc, kind, a, b, n) == [doc |-> doc, kind |-> kind, a |-> a, b |-> b, n |-> n]
Marker(doc, id) == Obj(doc, "marker", id, 0, 0)

\* mcp_server.py:2259-2263  what the point dictionaries hold for a point
Info(coords, cell, marker) == [coords |-> coords, grid_cell |-> cell, marker |-> marker]

\* mcp_server.py:51-52  an empty dict
EmptyPoints == [i \in {} |-> Info("", "", Marker(NoDoc, 0))]
\* d[k] = v  and  d.pop(k)
Put(d, k, v) == [i \in (DOMAIN d) \cup {k} |-> IF i = k THEN v ELSE d[i]]
Pop1(d, k) == [i \in (DOMAIN d) \ {k} |-> d[i]]

\* The record of a tool call: its name, how it ended ("success", "raised",
\* or the error of a {"success": False} result) and the point it returned
Call(name, outcome, id) == [name |-> name, outcome |-> outcome, id |-> id]
NoCallYet == Call("", "", 0)

\* No zoom yet, parse_grid_cell not called, nothing on standard input
NoParse == [ok |-> FALSE, col |-> 0, row |-> 0, error |-> "not called"]
InitGridIdle == zooms = 0
InitParseIdle == parse_arg = <<>> /\ parsed = NoParse
InitStdioIdle == stdin = <<>> /\ stdout = <<>> /\ stdio_pc = "reading"
InitRest == InitGridIdle /\ InitParseIdle /\ InitStdioIdle

\* mcp_server.py:41-56
InitMeasure ==
    /\ point_counter = 0
    /\ pending_points = EmptyPoints
    /\ confirmed_points = EmptyPoints
    /\ measurement_objects = <<>>
    /\ objects = {}
    /\ frames = <<>>
    /\ issued = <<>>
    /\ returned = {}
    /\ last = NoCallYet

\* ------------------------------------------------ the bridge on its own
\* execute_sync(op) called by a background thread or on the main thread
ExecuteSync(t, op) ==
    /\ nextCall <= MaxCalls
    /\ BridgeCall(t, op)
    /\ UNCHANGED <<serverVars, lifeVars, measVars, restVars>>

InitB == InitBridge /\ InitTools /\ InitServerIdle /\ InitLifecycle /\ InitMeasure /\ InitRest

NextB ==
    \/ \E t \in BgThreads \cup {AppThread}, op \in PlainOps : ExecuteSync(t, op)
    \/ Deliver
    \/ \E t \in Threads : PumpEnd(t)
    \/ \E t \in Threads : Finish(t)
    \/ \E t \in Threads : Timeout(t)
    \/ \E t \in Threads : Cancel(t)
    \/ \E t \in Threads : Return(t)

SpecBridge == InitB /\ [][NextB]_vars

\* -------------------------------------------------------- the TCP server
\* What one client does on its connection (mcp_server.py:2566-2579):
\*   empty      the peer closes without sending anything
\*   silent     nothing arrives within the 30 s read timeout
\*   badjson    a line that json.loads rejects
\*   notobject  a line holding JSON that is not an object
\*   call       a line {"tool": tool, "arguments": {...}}
\* The tools sent are one of each kind execute_tool tells apart: unknown,
\* failing, raising, succeeding with and without processEvents(), and
\* excluded from the automatic screenshot; the measurement tools are driven
\* by the measurement specification below.
Request(k, n, a) == [kind |-> k, tool |-> n, arg |-> a]
Requests ==
    { Request("empty", "", ""), Request("silent", "", ""),
      Request("badjson", "", ""), Request("notobject", "", ""),
      Request("call", "list_tools", ""), Request("call", "bogus", ""),
      Request("call", "setup_dual_docs", "ok"), Request("call", "setup_dual_docs", "missing"),
      Request("call", "setup_dual_docs", "corrupt"),
      Request("call", "create_box", "ok"), Request("call", "create_box", "missing"),
      Request("call", "take_screenshot", "") }

\* mcp_server.py:31
auto_screenshot_enabled == TRUE
\* mcp_server.py:2517
skip_screenshot_tools == {"list_tools", "get_mesh_points", "take_screenshot"}

\* json.dumps(response) + "\n": one line on the wire
Line(v) == [json |-> v, newline |-> TRUE]

\* mcp_server.py:2586  client.sendall(...) of the response
SendResponse(wire, v) == Append(wire, Line(v))

\* mcp_server.py:2587-2591  except Exception: best-effort error response
ErrorResponseDropped(wire, e) == wire
SendErrorResponse(wire, e) == Append(wire, Line(Failure(e)))

\* mcp_server.py:2587-2593 and 2554-2562  the exception is caught inside
\* _handle_client, which returns to the accept loop
ListenerDies(e) == "exited"
AfterClientError(e) == "loop"

\* mcp_server.py:2592-2593  finally: client.close()
CloseClient(cn) == [cn EXCEPT !.closed = TRUE]

\* _handle_client ends by sending `v`
Respond(v, et) ==
    /\ UNCHANGED nErrored
    /\ client' = CloseClient([client EXCEPT !.wire = SendResponse(@, v), !.et = et])
    /\ srvPc' = "loop"

\* _handle_client ends in its except clause with exception e
RespondError(e, et) ==
    /\ client' = CloseClient([client EXCEPT !.wire = SendErrorResponse(@, e),
                                             !.errored = TRUE, !.et = et])
    /\ nErrored' = nErrored + 1
    /\ srvPc' = AfterClientError(e)

\* mcp_server.start / SimpleMCPServer.start up to the loop (2545-2550)
StartServer ==
    /\ srvPc = "none"
    /\ running' = TRUE
    /\ sockOpen' = TRUE
    /\ srvPc' = "loop"
    /\ UNCHANGED <<nConn, client, nErrored, curCall, hop1Result, bridgeVars, toolVars, lifeVars, measVars, restVars>>

\* SimpleMCPServer.stop (2595-2598), called from a GUI command on the main thread
StopServer ==
    /\ running
    /\ LoopDispatching
    /\ running' = FALSE
    /\ sockOpen' = FALSE
    /\ UNCHANGED <<srvPc, nConn, client, nErrored, curCall, hop1Result, bridgeVars, toolVars, lifeVars, measVars, restVars>>

\* mcp_server.py:2554  while self.running
LoopCheck ==
    /\ srvPc = "loop"
    /\ srvPc' = IF running THEN "accept" ELSE "exited"
    /\ UNCHANGED <<running, sockOpen, nConn, client, nErrored, curCall, hop1Result, bridgeVars, toolVars, lifeVars, measVars, restVars>>

\* mcp_server.py:2558-2562  accept() raises socket.timeout, or OSError once
\* the socket is closed; both go back to the loop test
AcceptFails ==
    /\ srvPc = "accept"
    /\ srvPc' = "loop"
    /\ UNCHANGED <<running, sockOpen, nConn, client, nErrored, curCall, hop1Result, bridgeVars, toolVars, lifeVars, measVars, restVars>>

\* mcp_server.py:2556  client, addr = self.socket.accept()
Accept(req) ==
    /\ srvPc = "accept"
    /\ sockOpen
    /\ nConn < MaxConns
    /\ nConn' = nConn + 1
    /\ client' = [NoConn EXCEPT !.req = req]
    /\ srvPc' = "recv"
    /\ UNCHANGED <<running, sockOpen, nErrored, curCall, hop1Result, bridgeVars, toolVars, lifeVars, measVars, restVars>>

\* mcp_server.py:2566-2584  read the request, parse it, and either answer
\* or enter execute_tool
Receive ==
    /\ srvPc = "recv"
    /\ LET req == client.req IN
       IF req.kind = "call" /\ req.tool # "list_tools"
         THEN /\ BridgeCall(ServerThread, ToolOp(req.tool, req.arg))
              /\ curCall' = nextCall
              /\ srvPc' = "hop1"
              /\ UNCHANGED <<client, nErrored>>
         ELSE /\ CASE req.kind = "empty" ->
                        /\ client' = CloseClient(client)
                        /\ srvPc' = "loop"
                        /\ UNCHANGED nErrored
                   [] req.kind = "silent" -> RespondError("timed out", NoOutcome)
                   [] req.kind = "badjson" -> RespondError("JSONDecodeError", NoOutcome)
                   [] req.kind = "notobject" -> RespondError("AttributeError", NoOutcome)
                   [] OTHER -> Respond(Success("tools", FALSE), NoOutcome)
              /\ UNCHANGED <<curCall, bridgeVars, toolVars>>
    /\ UNCHANGED <<running, sockOpen, nConn, hop1Result, lifeVars, measVars, restVars>>

CallOver(c) == calls[c].pc \in {"done", "gaveup"}

\* execute_sync has returned to the server thread: its locals `func` and
\* `future` are gone, only the future's state is still looked at by the slot
Consume(c) ==
    /\ calls' = [calls EXCEPT ![c].op = NoOp, ![c].outcome = NoOutcome]
    /\ futures' = [futures EXCEPT ![calls[c].fut].res = NoOutcome]
    /\ UNCHANGED <<nextCall, eventQueue, stack, invoked, ranOn, slotErrors>>

\* mcp_server.py:2512-2518  execute_tool after its first execute_sync
AfterTool ==
    /\ srvPc = "hop1"
    /\ CallOver(curCall)
    /\ Consume(curCall)
    /\ LET out == calls[curCall].outcome IN
       IF out.tag = "raise"
         THEN /\ RespondError(out.exc, out)
              /\ UNCHANGED hop1Result
       ELSE IF auto_screenshot_enabled /\ out.val.success
               /\ client.req.tool \notin skip_screenshot_tools
         THEN /\ hop1Result' = out.val
              /\ srvPc' = "capture"
              /\ UNCHANGED <<client, nErrored>>
         ELSE /\ Respond(out.val, out)
              /\ UNCHANGED hop1Result
    /\ UNCHANGED <<running, sockOpen, nConn, curCall, toolVars, lifeVars, measVars, restVars>>

\* mcp_server.py:2526  screenshot = _bridge.execute_sync(_capture_screenshot)
CaptureCall ==
    /\ srvPc = "capture"
    /\ BridgeCall(ServerThread, CaptureOp)
    /\ curCall' = nextCall
    /\ srvPc' = "hop2"
    /\ UNCHANGED <<running, sockOpen, nConn, client, nErrored, hop1Result, lifeVars, measVars, restVars>>

\* mcp_server.py:2525-2533  the screenshot hop is over: attach or go without
FailWithoutScreenshot(result, out) ==
    IF out.tag = "ret" /\ out.val # NoneValue
      THEN [result EXCEPT !.screenshot = TRUE] ELSE Failure("Auto screenshot failed")
AttachScreenshot(result, out) ==
    IF out.tag = "ret" /\ out.val # NoneValue
      THEN [result EXCEPT !.screenshot = TRUE] ELSE result

AfterCapture ==
    /\ srvPc = "hop2"
    /\ CallOver(curCall)
    /\ Consume(curCall)
    /\ LET result == AttachScreenshot(hop1Result, calls[curCall].outcome) IN
       Respond(result, Ret(result))
    /\ hop1Result' = NoneValue
    /\ UNCHANGED <<running, sockOpen, nConn, curCall, toolVars, lifeVars, measVars, restVars>>

\* The user closes a document in the GUI (an event of the main thread)
UserCloseDocument ==
    /\ LoopDispatching
    /\ \E d \in freecad.docs :
         \E next \in (IF freecad.docs = {d} THEN {NoDoc} ELSE freecad.docs \ {d}) :
            freecad' = closeDocument(freecad, d, next)
    /\ UNCHANGED <<globals, bridgeVars, serverVars, lifeVars, measVars, restVars>>

InitS == InitBridge /\ InitTools /\ InitServerIdle /\ InitLifecycle /\ InitMeasure /\ InitRest

NextS ==
    \/ StartServer
    \/ StopServer
    \/ LoopCheck
    \/ AcceptFails
    \/ \E req \in Requests : Accept(req)
    \/ Receive
    \/ AfterTool
    \/ CaptureCall
    \/ AfterCapture
    \/ UserCloseDocument
    \/ Deliver
    \/ \E t \in Threads : PumpEnd(t)
    \/ \E t \in Threads : Finish(t)
    \/ \E t \in Threads : Timeout(t)
    \/ \E t \in Threads : Cancel(t)
    \/ \E t \in Threads : Return(t)

SpecServer == InitS /\ [][NextS]_vars

\* ------------------------------------------- start(), stop(), the listener
\* One step of a server thread or of a caller of start()/stop() does not
\* touch the bridge, the documents or the single-server view above.
LifeFrame == UNCHANGED <<bridgeVars, toolVars, serverVars, measVars, restVars>>

\* mcp_server.py:2601-2618  start(): a no-op returning the existing server
\* when _server is set; otherwise a new object and a new daemon thread
start ==
    /\ server_ref = 0
    /\ nServers < MaxServers
    /\ nServers' = nServers + 1
    /\ server_ref' = nServers + 1
    /\ servers' = [servers EXCEPT ![nServers + 1] = [NoServer EXCEPT !.pc = "created"]]
    /\ LifeFrame

\* mcp_server.py:2595-2598  SimpleMCPServer.stop
SimpleMCPServer_stop(sv) ==
    [sv EXCEPT !.running = FALSE, !.stopped = TRUE,
               !.socket = IF @ = "none" THEN "none" ELSE "closed"]

\* mcp_server.py:2621-2632  stop(): stops _server if set, forgets it and its
\* thread (the thread is not joined)
stop ==
    /\ server_ref # 0
    /\ servers' = [servers EXCEPT ![server_ref] = SimpleMCPServer_stop(@)]
    /\ server_ref' = 0
    /\ UNCHANGED nServers
    /\ LifeFrame

\* mcp_server.py:2545  self.socket = socket.socket(...)
CreateSocket(s) ==
    /\ servers[s].pc = "created"
    /\ servers' = [servers EXCEPT ![s].pc = "bind", ![s].socket = "created"]
    /\ UNCHANGED <<server_ref, nServers>>
    /\ LifeFrame

\* bind() fails on a closed socket and when another socket listens on the port
BindRaises(s) ==
    \/ servers[s].socket = "closed"
    \/ \E o \in ServerIds \ {s} : servers[o].socket = "listening"

\* mcp_server.py:2546-2550  bind, listen, settimeout(1.0), self.running = True;
\* an exception of bind() ends the thread
Listen(s) ==
    /\ servers[s].pc = "bind"
    /\ servers' = [servers EXCEPT ![s] =
          IF BindRaises(s) THEN [@ EXCEPT !.pc = "exited"]
          ELSE [@ EXCEPT !.pc = "loop", !.socket = "listening", !.running = TRUE]]
    /\ UNCHANGED <<server_ref, nServers>>
    /\ LifeFrame

\* mcp_server.py:2554  while self.running
LoopTest(s) ==
    /\ servers[s].pc = "loop"
    /\ servers' = [servers EXCEPT ![s].pc = IF servers[s].running THEN "accept" ELSE "exited"]
    /\ UNCHANGED <<server_ref, nServers>>
    /\ LifeFrame

\* mcp_server.py:2556-2562  accept() raises socket.timeout after 1 s, or
\* OSError on a closed socket; both return to the loop test
AcceptRaises(s) ==
    /\ servers[s].pc = "accept"
    /\ servers' = [servers EXCEPT ![s].pc = "loop",
                                  ![s].polls = IF servers[s].stopped /\ @ < MaxPolls
                                                 THEN @ + 1 ELSE @]
    /\ UNCHANGED <<server_ref, nServers>>
    /\ LifeFrame

\* mcp_server.py:2556-2557, 2566-2567  accept() returns a connection;
\* _handle_client starts with data = b""
AcceptClient(s) ==
    /\ servers[s].pc = "accept"
    /\ servers[s].socket = "listening"
    /\ servers' = [servers EXCEPT ![s].pc = "recv", ![s].buf = "none", ![s].data = "empty",
                                  ![s].late = servers[s].stopped]
    /\ UNCHANGED <<server_ref, nServers>>
    /\ LifeFrame

\* What the peer of a connection can put on the wire before the server reads
\* again: bytes without a newline, bytes ending a line, or its end of stream
Chunks == {"bytes", "line", "eof"}

ClientSends(s, chunk) ==
    /\ servers[s].pc = "recv"
    /\ servers[s].buf = "none"
    /\ servers' = [servers EXCEPT ![s].buf = chunk]
    /\ UNCHANGED <<server_ref, nServers>>
    /\ LifeFrame

\* mcp_server.py:2572  data += chunk
AddChunk(data, chunk) ==
    IF chunk = "line" THEN "line"
    ELSE IF chunk = "bytes" /\ data = "empty" THEN "partial"
    ELSE data

\* mcp_server.py:2568-2576  the read loop ends on an empty chunk or once
\* data holds a newline; empty data is not answered
AfterChunk(data, chunk) ==
    IF chunk = "eof" THEN (IF data = "empty" THEN "close" ELSE "parse")
    ELSE IF AddChunk(data, chunk) = "line" THEN "parse"
    ELSE "recv"

\* mcp_server.py:2569-2574  chunk = client.recv(4096) returns what has arrived
RecvChunk(s) ==
    /\ servers[s].pc = "recv"
    /\ servers[s].buf # "none"
    /\ servers' = [servers EXCEPT ![s].pc = AfterChunk(servers[s].data, servers[s].buf),
                                  ![s].data = AddChunk(@, servers[s].buf),
                                  ![s].buf = "none"]
    /\ UNCHANGED <<server_ref, nServers>>
    /\ LifeFrame

\* mcp_server.py:2566, 2569, 2587  nothing arrives for 30 s: recv raises
\* socket.timeout, handled by the except clause
RecvTimeout(s) ==
    /\ servers[s].pc = "recv"
    /\ servers[s].buf = "none"
    /\ servers' = [servers EXCEPT ![s].pc = "error"]
    /\ UNCHANGED <<server_ref, nServers>>
    /\ LifeFrame

\* mcp_server.py:2577-2584  json.loads and request.get raise, or the request
\* is list_tools (answered at once), or it goes to execute_tool
ParseRequest(s) ==
    /\ servers[s].pc = "parse"
    /\ \E next \in {"error", "send", "exec"} :
          servers' = [servers EXCEPT ![s].pc = next]
    /\ UNCHANGED <<server_ref, nServers>>
    /\ LifeFrame

\* mcp_server.py:2584  execute_tool submits the operation to the executor
\* and returns its result or raises (execute_sync gives up after its timeout)
ExecuteToolReturns(s) ==
    /\ servers[s].pc = "exec"
    /\ \E next \in {"send", "error"} :
          servers' = [servers EXCEPT ![s].pc = next]
    /\ UNCHANGED <<server_ref, nServers>>
    /\ LifeFrame

\* mcp_server.py:2586-2591  the response, or the best-effort error response
SendAll(s) ==
    /\ servers[s].pc \in {"send", "error"}
    /\ servers' = [servers EXCEPT ![s].pc = "close"]
    /\ UNCHANGED <<server_ref, nServers>>
    /\ LifeFrame

\* mcp_server.py:2592-2593  finally: client.close(); back in the accept loop
CloseConnection(s) ==
    /\ servers[s].pc = "close"
    /\ servers' = [servers EXCEPT ![s].pc = "loop", ![s].buf = "none", ![s].data = "empty",
                                  ![s].late = FALSE]
    /\ UNCHANGED <<server_ref, nServers>>
    /\ LifeFrame

\* A step of the thread of server s
ThreadStep(s) ==
    \/ CreateSocket(s) \/ Listen(s) \/ LoopTest(s) \/ AcceptRaises(s) \/ AcceptClient(s)
    \/ RecvChunk(s) \/ RecvTimeout(s) \/ ParseRequest(s) \/ ExecuteToolReturns(s)
    \/ SendAll(s) \/ CloseConnection(s)

InitL == InitBridge /\ InitTools /\ InitServerIdle /\ InitLifecycle /\ InitMeasure /\ InitRest

NextL ==
    \/ start
    \/ stop
    \/ \E s \in ServerIds : CreateSocket(s)
    \/ \E s \in ServerIds : Listen(s)
    \/ \E s \in ServerIds : LoopTest(s)
    \/ \E s \in ServerIds : AcceptRaises(s)
    \/ \E s \in ServerIds : AcceptClient(s)
    \/ \E s \in ServerIds, chunk \in Chunks : ClientSends(s, chunk)
    \/ \E s \in ServerIds : RecvChunk(s)
    \/ \E s \in ServerIds : RecvTimeout(s)
    \/ \E s \in ServerIds : ParseRequest(s)
    \/ \E s \in ServerIds : ExecuteToolReturns(s)
    \/ \E s \in ServerIds : SendAll(s)
    \/ \E s \in ServerIds : CloseConnection(s)

SpecLifecycle == InitL /\ [][NextL]_vars

\* Every server thread that can take a step eventually takes one (the
\* threads are scheduled by the operating system); clients are not obliged
\* to do anything
SpecLifecycleLive == SpecLifecycle /\ \A s \in ServerIds : WF_vars(ThreadStep(s))

\* ------------------------------------------------------- parse_grid_cell
\* A Python str is a sequence of characters, out of these
Upper == <<"A", "B", "C", "D", "E", "F", "G", "H", "I", "J", "K", "L", "M",
           "N", "O", "P", "Q", "R", "S", "T", "U", "V", "W", "X", "Y", "Z">>
Lower == <<"a", "b", "c", "d", "e", "f", "g", "h", "i", "j", "k", "l", "m",
           "n", "o", "p", "q", "r", "s", "t", "u", "v", "w", "x", "y", "z">>
Decimal == <<"0", "1", "2", "3", "4", "5", "6", "7", "8", "9">>
Space == " "
Minus == "-"
Plus == "+"

Occurs(chars, ch) == \E i \in 1..Len(chars) : chars[i] = ch
IndexOf(chars, ch) == CHOOSE i \in 1..Len(chars) : chars[i] = ch

\* str.upper(), str.strip(), str.isalpha()
upper(s) == [i \in 1..Len(s) |-> IF Occurs(Lower, s[i]) THEN Upper[IndexOf(Lower, s[i])] ELSE s[i]]

RECURSIVE lstrip(_)
lstrip(s) == IF s # <<>> /\ s[1] = Space THEN lstrip(Tail(s)) ELSE s

RECURSIVE rstrip(_)
rstrip(s) == IF s # <<>> /\ s[Len(s)] = Space THEN rstrip(SubSeq(s, 1, Len(s) - 1)) ELSE s

strip(s) == rstrip(lstrip(s))
isalpha(ch) == Occurs(Upper, ch) \/ Occurs(Lower, ch)

\* ord(ch) - ord('A') for a letter A..Z
ord_minus_A(ch) == IndexOf(Upper, ch) - 1

\* The number a string of decimal digits writes
RECURSIVE DecimalValue(_)
DecimalValue(s) ==
    IF s = <<>> THEN 0
    ELSE 10 * DecimalValue(SubSeq(s, 1, Len(s) - 1)) + (IndexOf(Decimal, s[Len(s)]) - 1)

\* int(s) of a str: blanks around it are dropped, a sign may lead, and at
\* least one decimal digit must follow; anything else is a ValueError
int(s) ==
    LET t == strip(s)
        signed == t # <<>> /\ t[1] \in {Minus, Plus}
        digits == IF signed THEN Tail(t) ELSE t
    IN IF digits = <<>> \/ \E i \in 1..Len(digits) : ~Occurs(Decimal, digits[i])
         THEN [ok |-> FALSE, val |-> 0]
         ELSE [ok |-> TRUE,
               val |-> IF signed /\ t[1] = Minus THEN 0 - DecimalValue(digits)
                       ELSE DecimalValue(digits)]

ValueError(e) == [ok |-> FALSE, col |-> 0, row |-> 0, error |-> e]
Parsed(c, r) == [ok |-> TRUE, col |-> c, row |-> r, error |-> ""]

\* mcp_server.py:373-399  parse_grid_cell
parse_grid_cell(s) ==
    LET c == strip(upper(s)) IN
    IF Len(c) < 2 THEN ValueError("Invalid grid cell")
    ELSE IF ~isalpha(c[1]) THEN ValueError("Invalid column letter")
    ELSE IF ~int(Tail(c)).ok THEN ValueError("Invalid row number")
    ELSE Parsed(ord_minus_A(c[1]), int(Tail(c)).val - 1)

\* Cell references given to parse_grid_cell: every string of at most MaxLen
\* of these characters
CellChars == {"A", "C", "h", "Z", "0", "1", "2", "6", Minus, Space}
Strings(n) == UNION {[1..k -> CellChars] : k \in 0..n}

InitParse ==
    /\ parse_arg \in Strings(MaxLen)
    /\ parsed = NoParse
    /\ InitGridIdle
    /\ InitStdioIdle

\* parse_grid_cell(parse_arg) is called
ParseGridCell ==
    /\ parsed = NoParse
    /\ parsed' = parse_grid_cell(parse_arg)
    /\ UNCHANGED <<parse_arg, gridVars, stdioVars, bridgeVars, toolVars, serverVars, lifeVars, measVars>>

InitP == InitBridge /\ InitTools /\ InitServerIdle /\ InitLifecycle /\ InitMeasure /\ InitParse

NextP == ParseGridCell

SpecParse == InitP /\ [][NextP]_vars

\* ------------------------------------- the point and measurement tools
\* A step of these tools does not touch the bridge or the servers
MeasFrame == UNCHANGED <<bridgeVars, serverVars, lifeVars, restVars>>

GridCells == {"A1"}
BadCell == "Z9"
Coords == {"u"}
Miss == "miss"

\* mcp_server.py:983-987  `doc` of _execute: the work document in dual mode
\* (get_work_doc raises when it is closed), else FreeCAD.ActiveDocument
DocRaises(g, fc) == is_dual_mode(g) /\ getDocumentRaises(fc, g.work_doc_name)
ResolveDoc(g, fc) == IF is_dual_mode(g) THEN g.work_doc_name ELSE fc.active

\* doc.removeObject(o.Name) under try/except, for every o of `os`: o.Name
\* raises for a deleted object, removeObject raises when `doc` is None or has
\* no object of that name; otherwise the object of that name leaves `doc`
RemoveObjects(objs, doc, os) == objs \ {[o EXCEPT !.doc = doc] : o \in os \cap objs}

Markers(points) == {points[i].marker : i \in DOMAIN points}

\* The call raised before its branch was reached
Raised(name) ==
    /\ last' = Call(name, "raised", 0)
    /\ UNCHANGED <<point_counter, pending_points, confirmed_points, measurement_objects,
                   objects, frames, issued, returned, toolVars>>

\* The call returned {"success": False, "error": e} and changed nothing
Failed(name, e) ==
    /\ last' = Call(name, e, 0)
    /\ UNCHANGED <<point_counter, pending_points, confirmed_points, measurement_objects,
                   objects, frames, issued, returned, toolVars>>

\* mcp_server.py:2023-2043  start_measurement
StartMeasurement ==
    /\ IF DocRaises(globals, freecad) THEN Raised("start_measurement") /\ UNCHANGED zooms
       ELSE /\ globals' = [globals EXCEPT !.measurement_mode = TRUE, !.grid_enabled = TRUE,
                                          !.region = FullRegion]
            /\ zooms' = 0
            /\ last' = Call("start_measurement", "success", 0)
            /\ UNCHANGED <<point_counter, pending_points, confirmed_points, measurement_objects,
                           objects, frames, issued, returned, freecad>>
    /\ UNCHANGED <<bridgeVars, serverVars, lifeVars, parseVars, stdioVars>>

\* mcp_server.py:2045-2064  end_measurement
EndMeasurement ==
    /\ IF DocRaises(globals, freecad) THEN Raised("end_measurement")
       ELSE /\ globals' = [globals EXCEPT !.measurement_mode = FALSE, !.grid_enabled = FALSE]
            /\ objects' = RemoveObjects(objects, ResolveDoc(globals, freecad), Markers(pending_points))
            /\ pending_points' = EmptyPoints
            /\ last' = Call("end_measurement", "success", 0)
            /\ UNCHANGED <<point_counter, confirmed_points, measurement_objects,
                           frames, issued, returned, freecad>>
    /\ MeasFrame

\* mcp_server.py:2236-2237  _point_counter += 1; point_id = f"point_{_point_counter}"
SamePointId(counter) == IF counter > 0 THEN counter ELSE counter + 1
NextPointId(counter) == counter + 1

\* mcp_server.py:2165-2256  select_point up to QApplication.processEvents():
\* the cell is parsed, the ray cast hits (coords) or misses, the point number
\* is generated and the marker sphere added to the document, unless
\* doc.addObject raises
SelectPoint(cell, coords, added) ==
    /\ (cell \in GridCells /\ coords # Miss) => point_counter < MaxPoints
    /\ IF DocRaises(globals, freecad) THEN Raised("select_point")
       ELSE IF cell \notin GridCells THEN Failed("select_point", "Invalid grid cell")
       ELSE IF freecad.active = NoDoc
         THEN Failed("select_point", "No active document with view")
       ELSE IF coords = Miss THEN Failed("select_point", "No surface at grid cell")
       ELSE IF ~added
         THEN \* doc.addObject raises: the except clause at line 2287 answers
              /\ point_counter' = NextPointId(point_counter)
              /\ issued' = Append(issued, NextPointId(point_counter))
              /\ last' = Call("select_point", "Failed to select point", 0)
              /\ UNCHANGED <<pending_points, confirmed_points, measurement_objects,
                             objects, frames, returned, toolVars>>
       ELSE LET id == NextPointId(point_counter)
                marker == Marker(ResolveDoc(globals, freecad), id)
            IN /\ point_counter' = id
               /\ issued' = Append(issued, id)
               /\ objects' = objects \cup {marker}
               /\ frames' = Append(frames, [id |-> id, info |-> Info(coords, cell, marker)])
               /\ last' = Call("select_point", "pumping", id)
               /\ UNCHANGED <<pending_points, confirmed_points, measurement_objects,
                              returned, toolVars>>
    /\ MeasFrame

\* mcp_server.py:2258-2283  select_point after processEvents(): the point is
\* stored as pending and its number returned
SelectPointEnd ==
    /\ frames # <<>>
    /\ LET f == frames[Len(frames)] IN
       /\ pending_points' = Put(pending_points, f.id, f.info)
       /\ returned' = returned \cup {f.id}
       /\ last' = Call("select_point", "success", f.id)
    /\ frames' = SubSeq(frames, 1, Len(frames) - 1)
    /\ UNCHANGED <<point_counter, confirmed_points, measurement_objects, objects, issued, toolVars>>
    /\ MeasFrame

\* mcp_server.py:2301-2302  point_info = _pending_points.pop(point_id);
\* _confirmed_points[point_id] = point_info
PendingKept(p, id) == p
PendingAfterConfirm(p, id) == Pop1(p, id)
ConfirmedAfterConfirm(p, c, id) == Put(c, id, p[id])

\* mcp_server.py:2290-2316  confirm_point
ConfirmPoint(a) ==
    /\ IF DocRaises(globals, freecad) THEN Raised("confirm_point")
       ELSE IF a = Missing THEN Failed("confirm_point", "point_id is required")
       ELSE IF a \notin DOMAIN pending_points
         THEN IF a \in DOMAIN confirmed_points
                THEN Failed("confirm_point", "already confirmed")
                ELSE Failed("confirm_point", "not found in pending points")
       ELSE /\ pending_points' = PendingAfterConfirm(pending_points, a)
            /\ confirmed_points' = ConfirmedAfterConfirm(pending_points, confirmed_points, a)
            /\ last' = Call("confirm_point", "success", 0)
            /\ UNCHANGED <<point_counter, measurement_objects, objects, frames, issued,
                           returned, toolVars>>
    /\ MeasFrame

\* mcp_server.py:2318-2368  clear_point
ClearPoint(a) ==
    /\ LET doc == ResolveDoc(globals, freecad) IN
       IF DocRaises(globals, freecad) THEN Raised("clear_point")
       ELSE IF a = Missing THEN Failed("clear_point", "point_id is required")
       ELSE IF a = All
         THEN /\ objects' = RemoveObjects(objects, doc,
                               Markers(pending_points) \cup Markers(confirmed_points))
              /\ pending_points' = EmptyPoints
              /\ confirmed_points' = EmptyPoints
              /\ last' = Call("clear_point", "success", 0)
              /\ UNCHANGED <<point_counter, measurement_objects, frames, issued,
                             returned, toolVars>>
       ELSE IF a \in DOMAIN pending_points
         THEN /\ objects' = RemoveObjects(objects, doc, {pending_points[a].marker})
              /\ pending_points' = Pop1(pending_points, a)
              /\ last' = Call("clear_point", "success", 0)
              /\ UNCHANGED <<point_counter, confirmed_points, measurement_objects, frames,
                             issued, returned, toolVars>>
       ELSE IF a \in DOMAIN confirmed_points
         THEN /\ objects' = RemoveObjects(objects, doc, {confirmed_points[a].marker})
              /\ confirmed_points' = Pop1(confirmed_points, a)
              /\ last' = Call("clear_point", "success", 0)
              /\ UNCHANGED <<point_counter, pending_points, measurement_objects, frames,
                             issued, returned, toolVars>>
       ELSE Failed("clear_point", "not found")
    /\ MeasFrame

\* mcp_server.py:2413-2416  both points must be confirmed
FirstConfirmed(c, a, b) == a \in DOMAIN c
BothConfirmed(c, a, b) == a \in DOMAIN c /\ b \in DOMAIN c

\* mcp_server.py:2431-2433  doc.addObject("Part::Feature", line_name): the
\* document gives the object a name no other of its objects has
LineObject(objs, doc, a, b) ==
    LET free == {n \in 0..MaxLines : Obj(doc, "line", a, b, n) \notin objs}
    IN Obj(doc, "line", a, b, CHOOSE n \in free : \A m \in free : n <= m)

\* mcp_server.py:2406-2466  measure_distance
MeasureDistance(a, b) ==
    /\ Len(measurement_objects) < MaxLines
    /\ LET doc == ResolveDoc(globals, freecad) IN
       IF DocRaises(globals, freecad) THEN Raised("measure_distance")
       ELSE IF a = Missing \/ b = Missing
         THEN Failed("measure_distance", "Both point_a and point_b are required")
       ELSE IF ~BothConfirmed(confirmed_points, a, b)
         THEN Failed("measure_distance", "not found or not confirmed")
       ELSE IF doc = NoDoc
         THEN Failed("measure_distance", "Failed to measure distance")
       ELSE LET line == LineObject(objects, doc, a, b) IN
            /\ objects' = objects \cup {line}
            /\ measurement_objects' = Append(measurement_objects, line)
            /\ last' = Call("measure_distance", "success", 0)
            /\ UNCHANGED <<point_counter, pending_points, confirmed_points, frames,
                           issued, returned, toolVars>>
    /\ MeasFrame

\* mcp_server.py:2468-2503  clear_measurements
ClearMeasurements ==
    /\ IF DocRaises(globals, freecad) THEN Raised("clear_measurements")
       ELSE /\ objects' = RemoveObjects(objects, ResolveDoc(globals, freecad),
                   {measurement_objects[i] : i \in 1..Len(measurement_objects)}
                   \cup Markers(pending_points) \cup Markers(confirmed_points))
            /\ measurement_objects' = <<>>
            /\ pending_points' = EmptyPoints
            /\ confirmed_points' = EmptyPoints
            /\ last' = Call("clear_measurements", "success", 0)
            /\ UNCHANGED <<point_counter, frames, issued, returned, toolVars>>
    /\ MeasFrame

\* mcp_server.py:2370-2404  list_points: every point with its status
ListPoints(p, c) ==
    {[point_id |-> i, status |-> "pending", grid_cell |-> p[i].grid_cell,
      coordinates |-> p[i].coords] : i \in DOMAIN p}
    \cup {[point_id |-> i, status |-> "confirmed", grid_cell |-> c[i].grid_cell,
           coordinates |-> c[i].coords] : i \in DOMAIN c}

\* mcp_server.py:989-1077  setup_dual_docs with a readable STL file: the
\* documents TargetDoc and WorkDoc are closed if open, and created
SetupDualDocsTool ==
    /\ IF DocRaises(globals, freecad) THEN Raised("setup_dual_docs")
       ELSE LET b == SetupDualDocs("ok", globals, freecad) IN
            /\ globals' = b.g
            /\ freecad' = b.fc
            /\ objects' = {o \in objects : o.doc \notin {TargetDoc, WorkDoc}}
            /\ last' = Call("setup_dual_docs", "success", 0)
            /\ UNCHANGED <<point_counter, pending_points, confirmed_points,
                           measurement_objects, frames, issued, returned>>
    /\ MeasFrame

\* What the user does in the GUI between two tool calls, or while a tool
\* body is inside processEvents(): a new document, or
UserNewDocument ==
    /\ Unnamed \notin freecad.docs
    /\ freecad' = newDocument(freecad, Unnamed)
    /\ last' = NoCallYet
    /\ UNCHANGED <<globals, point_counter, pending_points, confirmed_points,
                   measurement_objects, objects, frames, issued, returned>>
    /\ MeasFrame

\* a document the tools put objects in closed, with its objects
UserClosesDocument ==
    /\ \E d \in freecad.docs \ {TargetDoc} :
         \E next \in (IF freecad.docs = {d} THEN {NoDoc} ELSE freecad.docs \ {d}) :
            /\ freecad' = closeDocument(freecad, d, next)
            /\ objects' = {o \in objects : o.doc # d}
    /\ last' = NoCallYet
    /\ UNCHANGED <<globals, point_counter, pending_points, confirmed_points,
                   measurement_objects, frames, issued, returned>>
    /\ MeasFrame

InitM == InitBridge /\ InitTools /\ InitServerIdle /\ InitLifecycle /\ InitMeasure /\ InitRest

NextM ==
    \/ StartMeasurement
    \/ EndMeasurement
    \/ \E cell \in GridCells \cup {BadCell}, coords \in Coords \cup {Miss}, added \in BOOLEAN :
          SelectPoint(cell, coords, added)
    \/ SelectPointEnd
    \/ \E a \in 0..MaxPoints : ConfirmPoint(a)
    \/ \E a \in {All} \cup (0..MaxPoints) : ClearPoint(a)
    \/ \E a, b \in 0..MaxPoints : MeasureDistance(a, b)
    \/ ClearMeasurements
    \/ SetupDualDocsTool
    \/ UserNewDocument
    \/ UserClosesDocument

SpecMeasure == InitM /\ [][NextM]_vars

\* ------------------------------------------------------------ the grid zoom
\* A step of the grid tools does not touch the bridge, the servers or the parser
GridFrame == UNCHANGED <<bridgeVars, serverVars, lifeVars, parseVars, stdioVars>>

min(a, b) == IF b < a THEN b ELSE a

\* mcp_server.py:2086-2094  the new region as a fraction of the current one
RegionOfFull(current, col, row, size) ==
    Region(FMulInt(col, FDivInt(FOne, columns)),
           FMin(FOne, FMulInt(col + size, FDivInt(FOne, columns))),
           FMulInt(row, FDivInt(FOne, rows)),
           FMin(FOne, FMulInt(row + size, FDivInt(FOne, rows))))
ZoomedRegion(current, col, row, size) ==
    LET cell_width == FDivInt(FSub(current.x_max, current.x_min), columns)
        cell_height == FDivInt(FSub(current.y_max, current.y_min), rows)
        new_x_min == FAdd(current.x_min, FMulInt(col, cell_width))
        new_x_max == FMin(current.x_max, FAdd(new_x_min, FMulInt(size, cell_width)))
        new_y_min == FAdd(current.y_min, FMulInt(row, cell_height))
        new_y_max == FMin(current.y_max, FAdd(new_y_min, FMulInt(size, cell_height)))
    IN Region(new_x_min, new_x_max, new_y_min, new_y_max)

\* mcp_server.py:2083  size < 1 or size > min(cols, rows) is refused
AnySizeFromOne(size) == size >= 1
ValidSize(size) == ~(size < 1 \/ size > min(columns, rows))

\* mcp_server.py:2066-2138  zoom_grid_region.  The region is written before
\* the handler pumps events (lines 2116, 2121), so what it writes is one step
ZoomGridRegion(start_cell, size) ==
    /\ LET p == parse_grid_cell(start_cell) IN
       IF DocRaises(globals, freecad) THEN Raised("zoom_grid_region") /\ UNCHANGED zooms
       ELSE IF ~globals.measurement_mode
         THEN Failed("zoom_grid_region", "Not in measurement mode") /\ UNCHANGED zooms
       ELSE IF ~p.ok THEN Failed("zoom_grid_region", p.error) /\ UNCHANGED zooms
       ELSE IF p.col < 0 \/ p.col >= columns \/ p.row < 0 \/ p.row >= rows
         THEN Failed("zoom_grid_region", "Invalid cell") /\ UNCHANGED zooms
       ELSE IF ~ValidSize(size)
         THEN Failed("zoom_grid_region", "Invalid size") /\ UNCHANGED zooms
       ELSE /\ globals' = [globals EXCEPT !.region = ZoomedRegion(globals.region, p.col, p.row, size)]
            /\ zooms' = zooms + 1
            /\ last' = Call("zoom_grid_region", "success", 0)
            /\ UNCHANGED <<point_counter, pending_points, confirmed_points, measurement_objects,
                           objects, frames, issued, returned, freecad>>
    /\ GridFrame

\* mcp_server.py:2140-2163  reset_grid_zoom
ResetGridZoom ==
    /\ IF DocRaises(globals, freecad) THEN Raised("reset_grid_zoom") /\ UNCHANGED zooms
       ELSE /\ globals' = [globals EXCEPT !.region = FullRegion]
            /\ zooms' = 0
            /\ last' = Call("reset_grid_zoom", "success", 0)
            /\ UNCHANGED <<point_counter, pending_points, confirmed_points, measurement_objects,
                           objects, frames, issued, returned, freecad>>
    /\ GridFrame

\* Arguments of zoom_grid_region: cells of the grid, a cell outside it, a
\* malformed reference and row 0; sizes below, inside and above 1..min(columns, rows)
ZoomCells == {<<"A", "1">>, <<"c", "2">>, <<"H", "6">>, <<"Z", "2">>, <<"1", "A">>, <<"A", "0">>}
ZoomSizes == {0, 1, 2, 7}
LastColumn == <<"H", "1">>

GridStep(cells, sizes, depth) ==
    \/ StartMeasurement
    \/ EndMeasurement
    \/ zooms < depth /\ \E start_cell \in cells, size \in sizes : ZoomGridRegion(start_cell, size)
    \/ ResetGridZoom
    \/ SetupDualDocsTool
    \/ UserNewDocument
    \/ UserClosesDocument

InitG == InitBridge /\ InitTools /\ InitServerIdle /\ InitLifecycle /\ InitMeasure /\ InitRest

NextG == GridStep(ZoomCells, ZoomSizes, MaxZooms)

SpecGrid == InitG /\ [][NextG]_vars

\* The same tools, zooming into the last column again and again
NextD == GridStep({LastColumn}, {1}, MaxDeepZooms)

SpecGridDeep == InitG /\ [][NextD]_vars

\* ------------------------------------------- the stdio bridge mcp_bridge.py
\* A line of standard input: bytes that are not UTF-8, text that is not
\* JSON, or a JSON value; of an object, its "method", "id" and "params"
NoId == 0
StdioLine(j, m, id, p) == [json |-> j, method |-> m, id |-> id, params |-> p]
Methods == {"initialize", "notifications/initialized", "tools/list", "tools/call", "ping",
            "resources/list"}
StdioLines ==
    {StdioLine("object", m, id, p) : m \in Methods, id \in {NoId, 7}, p \in {"object", "null"}}
    \cup {StdioLine(j, "", NoId, "") : j \in {"array", "invalid", "notutf8"}}

\* What the FreeCAD TCP server does with the connection of send_to_freecad
Servers == {"answers", "refused", "closed"}

\* JSON-RPC responses
Result(id, body) == [jsonrpc |-> "2.0", id |-> id, kind |-> "result", code |-> 0, body |-> body]
Error(id, code) == [jsonrpc |-> "2.0", id |-> id, kind |-> "error", code |-> code, body |-> ""]
MethodNotFound == 0 - 32601
ParseError == 0 - 32700

\* mcp_bridge.py:41-65  send_to_freecad: the server's answer, or a failure
\* dict when connecting, sending, receiving or json.loads raises
send_to_freecad(server) ==
    IF server = "answers" THEN "server response"
    ELSE IF server = "refused" THEN "success false: FreeCAD server not running"
    ELSE "success false: str(e)"

\* mcp_bridge.py:290-301  the result as one text content block
TextContent(d) == [type |-> "text", text |-> d]

Returns(v) == [raised |-> FALSE, none |-> FALSE, val |-> v]
ReturnsNone == [raised |-> FALSE, none |-> TRUE, val |-> Error(NoId, 0)]
Raises == [raised |-> TRUE, none |-> FALSE, val |-> Error(NoId, 0)]

\* mcp_bridge.py:248-318  handle_request; request.get raises AttributeError
\* for a JSON value that is not an object, params.get for "params" that are not
handle_request(request, server) ==
    IF request.json # "object" THEN Raises
    ELSE IF request.method = "initialize" THEN Returns(Result(request.id, "serverInfo"))
    ELSE IF request.method = "notifications/initialized" THEN ReturnsNone
    ELSE IF request.method = "tools/list" THEN Returns(Result(request.id, "tools"))
    ELSE IF request.method = "tools/call"
      THEN IF request.params # "object" THEN Raises
           ELSE Returns(Result(request.id, TextContent(send_to_freecad(server))))
    ELSE IF request.method = "ping" THEN Returns(Result(request.id, "{}"))
    ELSE Returns(Error(request.id, MethodNotFound))

\* mcp_bridge.py:339-359  what one turn of the loop writes for `line`: the
\* response, the parse error for json.JSONDecodeError, and nothing for a
\* notification or for any other exception, which goes to stderr
NothingWritten(line, server) == <<>>
Written(line, server) ==
    IF line.json = "notutf8" THEN <<>>
    ELSE IF line.json = "invalid" THEN <<Error(NoId, ParseError)>>
    ELSE LET h == handle_request(line, server) IN
         IF h.raised \/ h.none THEN <<>> ELSE <<h.val>>

\* mcp_bridge.py:333-359  one turn of `while True` with a line on stdin
ReadLine(server) ==
    /\ stdio_pc = "reading"
    /\ stdin # <<>>
    /\ stdout' = stdout \o Written(Head(stdin), server)
    /\ stdin' = Tail(stdin)
    /\ UNCHANGED <<stdio_pc, gridVars, parseVars, bridgeVars, toolVars, serverVars, lifeVars, measVars>>

\* mcp_bridge.py:335-337  readline() returns b"" at end of input: break
EndOfInput ==
    /\ stdio_pc = "reading"
    /\ stdin = <<>>
    /\ stdio_pc' = "ended"
    /\ UNCHANGED <<stdin, stdout, gridVars, parseVars, bridgeVars, toolVars, serverVars, lifeVars, measVars>>

InitStdio ==
    /\ stdin \in UNION {[1..k -> StdioLines] : k \in 0..MaxInput}
    /\ stdout = <<>>
    /\ stdio_pc = "reading"
    /\ InitGridIdle
    /\ InitParseIdle

InitIO == InitBridge /\ InitTools /\ InitServerIdle /\ InitLifecycle /\ InitMeasure /\ InitStdio

NextIO ==
    \/ \E server \in Servers : ReadLine(server)
    \/ EndOfInput

SpecStdio == InitIO /\ [][NextIO]_vars

\* ------------------------------------------------------ claims: the bridge
Made(c) == calls[c].pc # "none"
FromBackground(c) == Made(c) /\ calls[c].thread # AppThread
FromMain(c) == Made(c) /\ calls[c].thread = AppThread
InQueue(c) == \E i \in 1..Len(eventQueue) : eventQueue[i] = c

\* C1: a call of execute_sync from a non-owner thread invokes op at most once,
\* and exactly once when the call returned a value or re-raised (did not time out).
C1_InvokedOncePerCall ==
    \A c \in CallIds :
        /\ invoked[c] <= 1
        /\ (FromBackground(c) /\ calls[c].pc = "done") => invoked[c] = 1

C1_Witness ==
    \E c, d \in CallIds :
        /\ FromBackground(c) /\ calls[c].pc = "done" /\ invoked[c] = 1
        /\ FromBackground(d) /\ calls[d].pc = "gaveup" /\ invoked[d] = 0

\* C2: the body of an operation called from a non-owner thread runs on the
\* owner thread only, never on the caller's; the caller gets its result only
\* from a future the owner thread has fulfilled.
C2_BodyOnOwnerThread ==
    /\ \A c \in CallIds : FromBackground(c) =>
          /\ ranOn[c] \subseteq {AppThread}
          /\ calls[c].pc = "done" => /\ futures[calls[c].fut].state = "FINISHED"
                                     /\ ranOn[c] = {AppThread}
    /\ \A t \in Threads \ {AppThread} : stack[t] = <<>>

C2_Witness ==
    \E c \in CallIds :
        FromBackground(c) /\ calls[c].pc = "done" /\ ranOn[c] = {AppThread}

\* C4: a call that timed out raises TimeoutError, and every call that got a
\* result got the value or exception of its own operation, whatever a late
\* completion of an abandoned operation does.
C4_OwnOutcomeOnly ==
    \A c \in CallIds : FromBackground(c) =>
        /\ calls[c].pc = "gaveup" => calls[c].outcome = Raise(ExecTimeoutError)
        /\ (calls[c].pc = "done" /\ calls[c].outcome.tag = "ret") =>
               calls[c].outcome = calls[c].op.res
        /\ (calls[c].pc = "done" /\ calls[c].outcome.tag = "raise") =>
               calls[c].op.res.tag = "raise"

C4_Witness ==
    \E c, d \in CallIds :
        /\ FromBackground(c) /\ calls[c].pc = "gaveup" /\ c \in slotErrors
        /\ FromBackground(d) /\ calls[d].pc = "done" /\ d > c
        /\ calls[d].outcome = calls[d].op.res
        /\ calls[d].op.res # calls[c].op.res

\* C5 (as claimed): once execute_sync has timed out and cancelled its future,
\* the late completion is dropped: nothing is written into the future and no
\* exception leaves the slot on the owner thread.
C5_LateCompletionDropped ==
    \A c \in CallIds :
        (FromBackground(c) /\ futures[calls[c].fut].state = "CANCELLED") =>
            /\ futures[calls[c].fut].res = NoOutcome
            /\ c \notin slotErrors

\* C6 (as claimed): when op raised E and execute_sync did not time out,
\* execute_sync raises that same E, after a single invocation.
C6_SameExceptionReraised ==
    \A c \in CallIds :
        (FromBackground(c) /\ calls[c].pc = "done" /\ calls[c].op.res.tag = "raise") =>
            /\ calls[c].outcome = calls[c].op.res
            /\ invoked[c] = 1

\* C7: a call made on the owner thread runs op at once on that thread and
\* returns its outcome; it never emits the queued request, creates no future
\* and never blocks the owner thread, also when made from inside a running body.
C7_DirectOnOwnerThread ==
    /\ ~Blocked(AppThread)
    /\ \A c \in CallIds : FromMain(c) =>
          /\ calls[c].pc \in {"direct", "done"}
          /\ calls[c].fut = 0
          /\ ~InQueue(c)
          /\ invoked[c] = 1
          /\ ranOn[c] = {AppThread}
          /\ calls[c].pc = "done" => calls[c].outcome = calls[c].op.res

C7_Witness ==
    \E d \in CallIds :
        /\ d + 1 \in CallIds
        /\ FromBackground(d) /\ FromMain(d + 1)
        /\ Len(stack[AppThread]) = 1 /\ stack[AppThread][1].call = d
        /\ calls[d + 1].pc = "done" /\ calls[d + 1].outcome = calls[d + 1].op.res

\* ------------------------------------------- claims: dispatcher and server
Handled == client.req.kind # "none" /\ client.closed

\* C3 (as claimed): the body of a queued operation never starts while the
\* body of another operation is still executing on the owner thread.
C3_OneBodyAtATime ==
    \A i \in 2..Len(stack[BridgeThread]) :
        calls[stack[BridgeThread][i].call].thread = AppThread

\* C8: on a connection whose client sent a non-empty request (and stays
\* connected to read the answer) the server writes
\* exactly one newline-terminated line, a JSON object with a success field,
\* and closes; nothing is written before that, and a request that failed
\* (bad JSON, not an object, operation raised, executor timed out) is
\* answered with success = false.
C8_OneResponseLine ==
    client.req.kind \notin {"none", "empty"} =>
        IF client.closed
          THEN /\ Len(client.wire) = 1
               /\ client.wire[1].newline
               /\ client.wire[1].json.dict
               /\ client.errored => ~client.wire[1].json.success
               /\ client.req.kind \in {"badjson", "notobject"} => client.errored
               /\ client.et.tag = "raise" => client.errored
          ELSE client.wire = <<>>

C8_Witness ==
    /\ Handled
    /\ client.req.kind = "call"
    /\ client.et = Raise(ExecTimeoutError)
    /\ client.wire = <<Line(Failure(ExecTimeoutError))>>

\* C9 (as claimed, for the calls the owner thread serviced within the
\* timeout): execute_tool with a name outside the catalog returns
\* {success: false, error: "Unknown tool: <name>"} and does not raise.
C9_UnknownToolResult ==
    (Handled /\ client.req.kind = "call" /\ client.req.tool = "bogus"
       /\ client.et # Raise(ExecTimeoutError)) =>
        client.et = Ret(Failure(UnknownToolError("bogus")))

\* C10: an exception while handling a connection never stops the listener:
\* the connection is closed, and the accept loop is left only after stop().
C10_ListenerSurvivesErrors ==
    /\ srvPc = "exited" => ~running
    /\ client.errored => client.closed
    /\ client.errored => srvPc \in {"loop", "accept", "exited"}

C10_Witness ==
    /\ nErrored >= 1
    /\ running
    /\ nConn = 2
    /\ Handled /\ ~client.errored
    /\ client.req.kind = "call"
    /\ Len(client.wire) = 1 /\ client.wire[1].json.success

\* ------------------------------------------- claims: start, stop, listener
\* A connection of server s has been accepted and is not closed yet
InFlight(s) == servers[s].pc \in {"recv", "parse", "exec", "send", "error", "close"}

\* C11 (as claimed): at most one connection is in flight at any time, across
\* any sequence of start() and stop(): no connection is accepted and no
\* operation submitted while another connection is still open.
C11_OneConnectionInFlight ==
    \A s, o \in ServerIds : (s # o /\ InFlight(s)) => ~InFlight(o)

\* C12 (as claimed): handling of a connection always ends, whatever the
\* client sends or withholds: the thread gets back to the accept loop.
C12_HandlingEnds ==
    \A s \in ServerIds : InFlight(s) ~> ~InFlight(s)

\* C13 (as claimed): after stop() the listener terminates: no connection is
\* accepted by that server afterwards, and at most one accept() call fails
\* before the loop is left.
C13_StoppedListenerTerminates ==
    \A s \in ServerIds :
        /\ InFlight(s) => ~servers[s].late
        /\ servers[s].polls <= 1

\* ------------------------------------------ claims: points and measurements
IssuedIds == {issued[i] : i \in 1..Len(issued)}
FrameIds == {frames[i].id : i \in 1..Len(frames)}

\* C14: after any sequence of select_point, confirm_point, clear_point,
\* start_measurement, end_measurement, measure_distance and clear_measurements
\* calls, no point id is in both the pending set and the confirmed set.
C14_PendingConfirmedDisjoint ==
    (DOMAIN pending_points) \cap (DOMAIN confirmed_points) = {}

C14_Witness ==
    /\ last = Call("confirm_point", "success", 0)
    /\ DOMAIN confirmed_points # {}
    /\ DOMAIN pending_points # {}

\* C15: every point id is generated with a number strictly greater than all
\* numbers generated before it, a successful select_point returns the number
\* generated for it, and no number is held by two points or returned twice,
\* also after the points have been cleared.
C15_PointIdsNeverReused ==
    /\ \A i, j \in 1..Len(issued) : i < j => issued[i] < issued[j]
    /\ (DOMAIN pending_points) \cup (DOMAIN confirmed_points) \cup FrameIds \cup returned
          \subseteq IssuedIds
    /\ FrameIds \cap returned = {}
    /\ \A i, j \in 1..Len(frames) : i # j => frames[i].id # frames[j].id
    /\ (last.name = "select_point" /\ last.outcome = "success") => last.id \in returned

C15_Witness ==
    /\ last = Call("select_point", "success", 2)
    /\ returned = {1, 2}
    /\ DOMAIN pending_points = {2}
    /\ DOMAIN confirmed_points = {}
    /\ measurement_objects = <<>>

\* C16 (as claimed): confirm_point(id) succeeds exactly when id is pending;
\* on success the point moves, unchanged, from pending to confirmed and is
\* listed as confirmed only; otherwise the call fails, with "already
\* confirmed" when id is confirmed, and leaves both sets unchanged.
C16_ConfirmExactlyWhenPending ==
    [][\A a \in 0..MaxPoints : ConfirmPoint(a) =>
          /\ (last'.outcome = "success") <=> (a \in DOMAIN pending_points)
          /\ (last'.outcome = "success") =>
                /\ pending_points' = Pop1(pending_points, a)
                /\ confirmed_points' = Put(confirmed_points, a, pending_points[a])
                /\ objects' = objects
                /\ \E pt \in ListPoints(pending_points', confirmed_points') :
                      pt.point_id = a /\ pt.status = "confirmed"
                /\ \A pt \in ListPoints(pending_points', confirmed_points') :
                      pt.point_id = a => pt.status # "pending"
          /\ (last'.outcome # "success") =>
                /\ UNCHANGED <<pending_points, confirmed_points>>
                /\ (a \in DOMAIN confirmed_points) => last'.outcome = "already confirmed"
      ]_vars

\* C17: measure_distance(a, b) succeeds only if a and b are both confirmed
\* at the time of the call; when either is pending, cleared or unknown the
\* call does not succeed, no line object is created and the list of tracked
\* lines is unchanged.
C17_MeasureOnlyConfirmed ==
    [][\A a, b \in 0..MaxPoints : MeasureDistance(a, b) =>
          LET both == a \in DOMAIN confirmed_points /\ b \in DOMAIN confirmed_points IN
          /\ (last'.outcome = "success") => both
          /\ ~both => /\ last'.outcome # "success"
                      /\ objects' = objects
                      /\ measurement_objects' = measurement_objects
      ]_vars

C17_Witness ==
    /\ last = Call("measure_distance", "success", 0)
    /\ Len(measurement_objects) = 1
    /\ measurement_objects[1].a # measurement_objects[1].b
    /\ measurement_objects[1] \in objects

\* C18 (as claimed): from any state, end_measurement sets measurement mode
\* inactive and the grid disabled, empties the pending set and leaves the
\* confirmed set and the markers of its points as they were.
C18_EndMeasurementKeepsConfirmed ==
    [][EndMeasurement =>
          /\ ~globals'.measurement_mode
          /\ ~globals'.grid_enabled
          /\ pending_points' = EmptyPoints
          /\ confirmed_points' = confirmed_points
          /\ Markers(confirmed_points) \cap objects \subseteq objects'
      ]_vars

\* C19 (as claimed): clear_point(id) removes id from whichever of the two
\* sets holds it and leaves every other point untouched, clear_point("all")
\* empties both sets, and for an id in neither set the call fails and
\* leaves both sets unchanged.
C19_ClearPointRemovesOnlyThat ==
    [][\A a \in {All} \cup (1..MaxPoints) : ClearPoint(a) =>
          /\ a = All => /\ pending_points' = EmptyPoints
                        /\ confirmed_points' = EmptyPoints
          /\ a \in DOMAIN pending_points =>
                /\ pending_points' = Pop1(pending_points, a)
                /\ confirmed_points' = confirmed_points
          /\ a \in DOMAIN confirmed_points =>
                /\ confirmed_points' = Pop1(confirmed_points, a)
                /\ pending_points' = pending_points
          /\ (a # All /\ a \notin (DOMAIN pending_points) \cup (DOMAIN confirmed_points)) =>
                /\ last'.outcome # "success"
                /\ UNCHANGED <<pending_points, confirmed_points>>
      ]_vars

\* C20 (as claimed): from any state, clear_measurements returns success and
\* leaves the list of tracked lines, the pending set and the confirmed set
\* empty, also when tracked lines or markers are gone from the document.
C20_ClearMeasurementsNeverFails ==
    [][ClearMeasurements =>
          /\ last'.outcome = "success"
          /\ measurement_objects' = <<>>
          /\ pending_points' = EmptyPoints
          /\ confirmed_points' = EmptyPoints
      ]_vars

\* Marker objects that exist in some document
MarkerObjects == {o \in objects : o.kind = "marker"}

\* C21: whenever no tool body is running, every marker object that exists in a
\* document belongs to a point that is in the pending or the confirmed set
C21_MarkersBelongToPoints ==
    frames = <<>> => MarkerObjects \subseteq Markers(pending_points) \cup Markers(confirmed_points)

\* ------------------------------------------------- claims: grid and parser
IsLetter(ch) == Occurs(Upper, ch) \/ Occurs(Lower, ch)
LetterIndex(ch) == IF Occurs(Upper, ch) THEN IndexOf(Upper, ch) - 1 ELSE IndexOf(Lower, ch) - 1
AllDecimal(s) == s # <<>> /\ \A i \in 1..Len(s) : Occurs(Decimal, s[i])

\* One letter followed by a positive decimal integer
WellFormed(s) ==
    /\ Len(s) >= 2
    /\ IsLetter(s[1])
    /\ AllDecimal(Tail(s))
    /\ DecimalValue(Tail(s)) >= 1

\* A well-formed reference to a cell of the columns x rows grid
InsideGrid(s) == WellFormed(s) /\ LetterIndex(s[1]) < columns /\ DecimalValue(Tail(s)) <= rows

LowerBound(x0, x1, c, n) == FAdd(x0, FDivInt(FMulInt(c, FSub(x1, x0)), n))
UpperBound(x0, x1, c, s, n) ==
    FMin(x1, FAdd(LowerBound(x0, x1, c, n), FDivInt(FMulInt(s, FSub(x1, x0)), n)))
RegionClaimed(cur, c, r, s) ==
    Region(LowerBound(cur.x_min, cur.x_max, c, columns),
           UpperBound(cur.x_min, cur.x_max, c, s, columns),
           LowerBound(cur.y_min, cur.y_max, r, rows),
           UpperBound(cur.y_min, cur.y_max, r, s, rows))

\* Equal as far as the rounding of float arithmetic can tell: within 2^-50
Rounding == Float(<<1>>, 0 - 50)
Same(x, y) == IF FLess(x, y) THEN FLeq(FSub(y, x), Rounding) ELSE FLeq(FSub(x, y), Rounding)
SameRegion(a, b) ==
    /\ Same(a.x_min, b.x_min) /\ Same(a.x_max, b.x_max)
    /\ Same(a.y_min, b.y_min) /\ Same(a.y_max, b.y_max)

ZoomSucceeds(start_cell, size) == ZoomGridRegion(start_cell, size) /\ last'.outcome = "success"
CellA1 == <<"A", "1">>
OnceA1 == Region(FZero, FRatio(2, 8), FZero, FRatio(2, 6))

\* A successful zoom gives the region the formula gives, up to the rounding
\* of the float operations, and from the full region A1 size 2 gives
\* [0, 2/8] x [0, 2/6]
ZoomFormula ==
    /\ \A start_cell \in ZoomCells, size \in ZoomSizes :
         ZoomSucceeds(start_cell, size) =>
            SameRegion(globals'.region,
                       RegionClaimed(globals.region, LetterIndex(start_cell[1]),
                                     DecimalValue(Tail(start_cell)) - 1, size))
    /\ (globals.region = FullRegion /\ ZoomSucceeds(CellA1, 2)) => globals'.region = OnceA1

\* C23 as stated: ... and A1 size 2 again gives [0, 2/64] x [0, 2/36]
C23_ZoomRegionAsStated ==
    [][/\ ZoomFormula
       /\ (globals.region = OnceA1 /\ ZoomSucceeds(CellA1, 2)) =>
             globals'.region = Region(FZero, FRatio(2, 64), FZero, FRatio(2, 36))]_vars

\* C23: a successful zoom at cell (c, r) with size s sets x_min = x0 + c*(x1-x0)/C,
\* x_max = min(x1, x_min + s*(x1-x0)/C) and likewise y; from the full region
\* A1 size 2 gives [0, 2/8] x [0, 2/6], and A1 size 2 again gives
\* [0, 4/64] x [0, 4/36]
C23_ZoomRegion ==
    [][/\ ZoomFormula
       /\ (globals.region = OnceA1 /\ ZoomSucceeds(CellA1, 2)) =>
             globals'.region = Region(FZero, FRatio(4, 64), FZero, FRatio(4, 36))]_vars

C23_Witness ==
    /\ last = Call("zoom_grid_region", "success", 0)
    /\ zooms = 2
    /\ globals.region = Region(FZero, FRatio(4, 64), FZero, FRatio(4, 36))

RegionValid(r) ==
    /\ FLeq(FZero, r.x_min) /\ FLess(r.x_min, r.x_max) /\ FLeq(r.x_max, FOne)
    /\ FLeq(FZero, r.y_min) /\ FLess(r.y_min, r.y_max) /\ FLeq(r.y_max, FOne)

\* Region a lies inside region b
Contained(a, b) ==
    /\ FLeq(b.x_min, a.x_min) /\ FLeq(a.x_max, b.x_max)
    /\ FLeq(b.y_min, a.y_min) /\ FLeq(a.y_max, b.y_max)

\* C24: in every reachable state 0 <= x_min < x_max <= 1 and 0 <= y_min < y_max <= 1;
\* every successful zoom_grid_region yields a region contained in the one
\* before it, and the region becomes larger only through reset_grid_zoom or
\* start_measurement, which set it to the full unit square
C24_RegionValid ==
    /\ []RegionValid(globals.region)
    /\ [][/\ (last'.name = "zoom_grid_region" /\ last'.outcome = "success")
               => Contained(globals'.region, globals.region)
          /\ ~Contained(globals'.region, globals.region)
               => /\ globals'.region = FullRegion
                  /\ last'.name \in {"reset_grid_zoom", "start_measurement"}]_vars

\* C25: from any state start_measurement succeeds and leaves the mode active,
\* the grid enabled, the region the full unit square and the point sets and
\* counter untouched; called twice in a row, the second call changes nothing
C25_StartMeasurementIdempotent ==
    [][StartMeasurement =>
         /\ last'.outcome = "success"
         /\ globals'.measurement_mode /\ globals'.grid_enabled
         /\ globals'.region = FullRegion
         /\ UNCHANGED <<point_counter, pending_points, confirmed_points>>
         /\ last = Call("start_measurement", "success", 0)
              => UNCHANGED <<globals, freecad, objects, measurement_objects, zooms, last>>]_vars

\* C28: parse_grid_cell maps one letter (either case, A = column 0) followed
\* by a positive decimal integer n to (letter index, n - 1) and raises a
\* validation error for every other input
C28_ParseGridCell ==
    parsed # NoParse =>
        IF WellFormed(parse_arg)
          THEN parsed = Parsed(LetterIndex(parse_arg[1]), DecimalValue(Tail(parse_arg)) - 1)
          ELSE ~parsed.ok

\* ------------------------------------------- claims: select_point failures
SelectPointFailed ==
    /\ \E c \in GridCells \cup {BadCell}, coords \in Coords \cup {Miss}, added \in BOOLEAN :
          SelectPoint(c, coords, added)
    /\ last'.outcome \notin {"success", "pumping", "raised"}

\* C30: a select_point call that returns success = false leaves the pending
\* set, the confirmed set and the point counter unchanged, so that the
\* numbers of the successful selections are consecutive
C30_FailedSelectChangesNothing ==
    /\ [][SelectPointFailed => UNCHANGED <<pending_points, confirmed_points, point_counter>>]_vars
    /\ [](\A id \in returned : id = 1 \/ (id - 1) \in returned \cup FrameIds)

\* ---------------------------------------------- claims: the stdio bridge
\* The response the protocol asks for, for a line that is not a
\* notifications/initialized notification
IsInitialized(line) == line.json = "object" /\ line.method = "notifications/initialized"
Answered(line, r) ==
    IF line.json # "object" THEN r.kind = "error" /\ r.code = ParseError
    ELSE IF line.method \in {"initialize", "tools/list", "ping"}
      THEN r.kind = "result" /\ r.id = line.id
    ELSE IF line.method = "tools/call"
      THEN r.kind = "result" /\ r.id = line.id /\ r.body \in {TextContent(send_to_freecad(s)) : s \in Servers}
    ELSE r.kind = "error" /\ r.code = MethodNotFound

\* C29: every input line except a notifications/initialized notification
\* produces exactly one JSON-RPC response line, of the kind the method asks
\* for, after which the read loop continues; the notification produces none
C29_OneResponsePerLine ==
    [][\A server \in Servers : ReadLine(server) =>
         /\ stdio_pc' = "reading"
         /\ IF IsInitialized(Head(stdin)) THEN stdout' = stdout
            ELSE /\ Len(stdout') = Len(stdout) + 1
                 /\ SubSeq(stdout', 1, Len(stdout)) = stdout
                 /\ Answered(Head(stdin), stdout'[Len(stdout')])]_vars

\* ------------------------------------------ claims: execute_tool's results
\* The automatic screenshot hop has ended without an image: the capture
\* returned None, raised, or execute_sync gave up waiting for it
ScreenshotFailed ==
    LET out == calls[curCall].outcome
    IN out.tag = "raise" \/ (out.tag = "ret" /\ out.val = NoneValue)

\* C26: the screenshot hop is made only after the operation's hop returned
\* a successful result, and never for list_tools, get_mesh_points or
\* take_screenshot; when that hop fails (nothing captured, an exception, a
\* timeout of its own execute_sync) the client still receives the
\* operation's successful result, unchanged and without an attached image.
C26_ScreenshotFailureKeepsResult ==
    /\ [](srvPc \in {"capture", "hop2"} =>
            /\ hop1Result # NoneValue
            /\ hop1Result.success
            /\ client.req.kind = "call"
            /\ client.req.tool \notin skip_screenshot_tools)
    /\ [][srvPc = "hop2" /\ srvPc' # "hop2" /\ ScreenshotFailed =>
            /\ hop1Result.success
            /\ client'.closed
            /\ client'.wire = <<Line(hop1Result)>>]_vars

\* create_box succeeded, the screenshot hop timed out, and the client holds
\* the successful result
C26_Witness ==
    /\ Handled
    /\ client.req = Request("call", "create_box", "ok")
    /\ client.wire = <<Line(Success("box", FALSE))>>
    /\ calls[curCall].pc = "gaveup"

====
